---- MODULE Spec2Model ----
(***************************************************************************)
(* ChannelGuardYT: the IndexedDB service of the popup (indexedDBService),  *)
(* the popup's views and state switch, and the background script's         *)
(* fetchBlockedAuthors listener, as one state machine.                     *)
(*                                                                         *)
(* A task is one activation of an async function.  Its steps are the       *)
(* events the JavaScript event loop delivers to it: the completion of a    *)
(* digest, of an open request, of an object-store request.  Everything the *)
(* code runs between two such events (promise continuations, which run as  *)
(* microtasks before the next event) is part of the step of the first.     *)
(***************************************************************************)
EXTENDS Integers, Sequences, FiniteSets, TLC

\* Largest key the blockedAuthors key generator hands out in a run.
MaxKey == 2

\* Number of fetchBlockedAuthors messages the background script receives.
MaxMsgs == 2

\* The version passed to indexedDB.open.
DBVersion == 2

Procs == {1, 2}
Ctxs == {"popup", "bg"}

\* ------------------------------------------------------------- inputs

NameInputs == {<<"A", "b">>, <<"a", "b">>, <<"a", "B">>, <<"c">>}
PinInputs == {<<"1", "2", "3", "4", "5", "6">>, <<"6", "5", "4", "3", "2", "1">>}
IdInputs == 1..(MaxKey + 1)

\* ------------------------------------------------------ pure functions

\* String.prototype.toLowerCase, on the letters of the inputs.
LowerChar(c) ==
  CASE c = "A" -> "a"
    [] c = "B" -> "b"
    [] c = "C" -> "c"
    [] OTHER -> c

toLowerCase(s) == [i \in 1..Len(s) |-> LowerChar(s[i])]

\* TextEncoder.encode: the UTF-8 byte of each (ASCII) character.
CharCode(c) ==
  CASE c = "0" -> 48 [] c = "1" -> 49 [] c = "2" -> 50 [] c = "3" -> 51
    [] c = "4" -> 52 [] c = "5" -> 53 [] c = "6" -> 54 [] c = "7" -> 55
    [] c = "8" -> 56 [] c = "9" -> 57 [] c = "a" -> 97 [] c = "b" -> 98
    [] c = "A" -> 65 [] c = "B" -> 66 [] c = " " -> 32
    [] OTHER -> 63

encode(s) == [i \in 1..Len(s) |-> CharCode(s[i])]

\* crypto.subtle.digest: a one-byte multiplicative digest stands for SHA-256.
RECURSIVE digestFrom(_, _, _)
digestFrom(bytes, i, acc) ==
  IF i > Len(bytes) THEN acc
  ELSE digestFrom(bytes, i + 1, (acc * 31 + bytes[i]) % 256)

digest(bytes) == <<digestFrom(bytes, 1, 7)>>

HexDigits == <<"0", "1", "2", "3", "4", "5", "6", "7",
               "8", "9", "a", "b", "c", "d", "e", "f">>

\* byte.toString(16).padStart(2, "0")
byteToHex(b) == <<HexDigits[(b \div 16) + 1], HexDigits[(b % 16) + 1]>>

RECURSIVE joinHex(_, _)
joinHex(hashArray, i) ==
  IF i > Len(hashArray) THEN <<>>
  ELSE byteToHex(hashArray[i]) \o joinHex(hashArray, i + 1)

hashString(input) == joinHex(digest(encode(input)), 1)

\* -------------------------------------------------------------- state

VARIABLES
  authors,     \* object store "blockedAuthors": its records, in key order
  nextKey,     \* the next key of its autoIncrement key generator
  settings,    \* object store "settings": its records
  dbVersion,   \* version of channelGuardDB on disk; 0: not created yet
  storeNames,  \* objectStoreNames of channelGuardDB
  opens,       \* the indexedDB.open requests: opens[h] = [ctx, st]; h is the handle
  db,          \* db[c]: the module-level `let db` of context c; 0: undefined
  tasks,       \* tasks[t]: an activation of an async function
  queue,       \* tasks with an object-store request pending, oldest first
  state,       \* the popup's `state`; "boot" until DOMContentLoaded has set it
  shown,       \* the <li> items of the rendered #authorsList
  replies,     \* replies[m]: the sendResponse calls made for message m
  last,        \* the call that completed before the one now in slot 1
  pinWrites    \* whether any put on the "pin" record has succeeded

storeVars == <<authors, nextKey, settings, dbVersion, storeNames>>
vars == <<authors, nextKey, settings, dbVersion, storeNames, opens, db,
          tasks, queue, state, shown, replies, last, pinWrites>>

NoArg == [name |-> <<>>, id |-> 0, pin |-> <<>>, newPin |-> <<>>, confirm |-> <<>>]

\* A task slot nobody uses.  hd: the handler the task runs for; op: the store
\* operation it is in; ph: the operation's request number; h: the handle it
\* holds; hp: its hashedPIN; got: the digest read; val: <<>> is undefined.
\* before: the items #authorsList had when refreshAuthorsList was called.
Idle == [op |-> "none", hd |-> "none", ctx |-> "popup", arg |-> NoArg, m |-> 0,
         pc |-> "idle", ph |-> 0, h |-> 0, hp |-> <<>>, got |-> <<>>,
         out |-> "none", val |-> <<>>, err |-> "none", alert |-> "none",
         stale |-> FALSE, before |-> <<>>]

NoCall == [op |-> "none", arg |-> NoArg, out |-> "none", val |-> <<>>,
           err |-> "none", alert |-> "none"]

Summary(tk) == [op |-> tk.op, arg |-> tk.arg, out |-> tk.out, val |-> tk.val,
                err |-> tk.err, alert |-> tk.alert]

Active(t) == tasks[t].pc \notin {"idle", "done"}

\* The settled promise of a store operation, not yet seen by its caller.
Resolve(tk, v) == [tk EXCEPT !.pc = "ret", !.out = "resolved", !.val = v]
Reject(tk, e) == [tk EXCEPT !.pc = "ret", !.out = "rejected", !.err = e]

\* ----------------------------------------------- object-store requests

\* The cursor walk of authorExists over the records of the store.
RECURSIVE cursorWalk(_, _, _)
cursorWalk(recs, i, lowercasedName) ==
  IF i > Len(recs) THEN FALSE
  ELSE IF toLowerCase(recs[i].name) = lowercasedName THEN TRUE
  ELSE cursorWalk(recs, i + 1, lowercasedName)

\* authorExists comparing with authorName as typed.
authorExistsAsTyped(recs, authorName) == cursorWalk(recs, 1, authorName)

authorExists(recs, authorName) == cursorWalk(recs, 1, toLowerCase(authorName))

\* store.add({ name: authorName })
addRecordAsTyped(recs, key, authorName) ==
  Append(recs, [id |-> key, name |-> authorName])

\* An add that looks for the name once more, inside its own transaction.
addRecordIfAbsent(recs, key, authorName) ==
  IF cursorWalk(recs, 1, toLowerCase(authorName)) THEN recs
  ELSE Append(recs, [id |-> key, name |-> toLowerCase(authorName)])

\* store.add({ name: authorName.toLowerCase() }) with the generated key.
addRecord(recs, key, authorName) ==
  Append(recs, [id |-> key, name |-> toLowerCase(authorName)])

\* store.delete(id) deleting nothing.
deleteRecordNone(recs, id) == recs

\* store.clear() where store.delete(id) is meant.
deleteRecordAll(recs, id) == <<>>

\* store.delete(id)
deleteRecord(recs, id) == SelectSeq(recs, LAMBDA r : r.id # id)

\* store.clear() leaving the records where they are.
clearNothing(recs) == recs

\* store.clear()
clear(recs) == <<>>

\* store.put(record) adding a record beside the one with the same id.
putBeside(recs, record) == recs \cup {record}

\* store.put(record) on a store with keyPath "id"
put(recs, record) == {r \in recs : r.id # record.id} \cup {record}

\* store.get(id): <<>> is undefined
get(recs, id) ==
  IF \E r \in recs : r.id = id
  THEN <<CHOOSE r \in recs : r.id = id>>
  ELSE <<>>

pinRecord(hashedPIN) == [id |-> "pin", type |-> "pin", value |-> hashedPIN]

\* The request a task issues in phase ph of its operation.
RequestKind(tk) ==
  CASE tk.op = "addAuthor" -> IF tk.ph = 1 THEN "openCursor" ELSE "add"
    [] tk.op = "deleteAuthor" -> "delete"
    [] tk.op = "getAuthors" -> "getAll"
    [] tk.op = "clearAuthors" -> "clear"
    [] tk.op = "setPIN" -> "put"
    [] tk.op = "verifyPIN" -> "get"
    [] tk.op = "isPINSet" -> "get"
    [] tk.op = "updatePIN" -> IF tk.ph = 1 THEN "get" ELSE "put"
    [] OTHER -> "none"

StoreOf(kind) ==
  IF kind \in {"openCursor", "add", "delete", "getAll", "clear"}
  THEN "blockedAuthors" ELSE "settings"

ModeOf(kind) ==
  IF kind \in {"openCursor", "getAll", "get"} THEN "readonly" ELSE "readwrite"

\* Transactions with overlapping scopes, one of them readwrite, run in the
\* order of their creation.
Conflicts(a, b) ==
  /\ StoreOf(RequestKind(a)) = StoreOf(RequestKind(b))
  /\ "readwrite" \in {ModeOf(RequestKind(a)), ModeOf(RequestKind(b))}

CanRun(i) == \A j \in 1..(i - 1) : ~Conflicts(tasks[queue[j]], tasks[queue[i]])

Without(q, t) == SelectSeq(q, LAMBDA x : x # t)

\* ------------------------------------------------ the store operations

\* db.transaction([store], mode) on handle hd, then the request.
transaction(tk, hd, env) ==
  IF env.opens[hd].st # "done" THEN Reject(tk, "InvalidStateError")
  ELSE IF StoreOf(RequestKind(tk)) \notin env.storeNames THEN Reject(tk, "NotFoundError")
  ELSE [tk EXCEPT !.pc = "req", !.h = hd]

\* openDatabase up to its first suspension, and what its caller does when the
\* promise is already resolved.
openDatabase(tk, env) ==
  IF env.db[tk.ctx] # 0
  THEN transaction(tk, env.db[tk.ctx], env)
  ELSE [tk EXCEPT !.pc = "opening", !.h = Len(env.opens) + 1]

\* A store operation up to its first suspension.
begin(tk) ==
  IF tk.op \in {"setPIN", "updatePIN"}
  THEN [tk EXCEPT !.pc = "hash", !.ph = 1]
  ELSE [tk EXCEPT !.pc = "call", !.ph = 1]

\* addAuthor ignoring what authorExists said.
addAuthorUnchecked(tk, exists) == [tk EXCEPT !.pc = "call", !.ph = 2]

\* addAuthor after `await authorExists(authorName)`.
addAuthor(tk, exists) ==
  IF exists
  THEN [Resolve(tk, <<>>) EXCEPT !.alert = "Author already exists"]
  ELSE [tk EXCEPT !.pc = "call", !.ph = 2]

\* updatePIN ignoring what verifyPIN said.
updatePINUnchecked(tk, isOldPINVerified) == [tk EXCEPT !.pc = "call", !.ph = 2]

\* updatePIN after `await verifyPIN(oldPIN)`.
updatePIN(tk, isOldPINVerified) ==
  IF ~isOldPINVerified
  THEN Reject(tk, "Old PIN is incorrect.")
  ELSE [tk EXCEPT !.pc = "call", !.ph = 2]

\* The promise of verifyPIN resolves with r.
verifyPINResolves(tk, r) ==
  IF tk.op = "updatePIN" THEN updatePIN(tk, r) ELSE Resolve(tk, <<r>>)

\* verifyPIN's request.onsuccess, up to `await hashString(pin)`.
verifyPIN(tk, result) ==
  IF result # <<>>
  THEN [tk EXCEPT !.pc = "cmp", !.got = result[1].value]
  ELSE verifyPINResolves(tk, FALSE)

\* verifyPIN comparing the stored digest with the PIN itself.
comparePINPlain(tk) == verifyPINResolves(tk, tk.got = tk.arg.pin)

\* verifyPIN after `await hashString(pin)`.
comparePIN(tk) == verifyPINResolves(tk, tk.got = hashString(tk.arg.pin))

\* isPINSet resolving true whatever the request found.
isPINSetAlways(tk, result) == Resolve(tk, <<TRUE>>)

\* isPINSet's request.onsuccess.
isPINSet(tk, result) == Resolve(tk, <<result # <<>>>>)

\* updatePIN hashing oldPIN where newPIN is meant.
hashedOld(tk) == [tk EXCEPT !.pc = "call", !.hp = hashString(tk.arg.pin)]

\* setPIN and updatePIN keeping the PIN as entered.
hashedPlain(tk) ==
  [tk EXCEPT !.pc = "call",
             !.hp = IF tk.op = "updatePIN" THEN tk.arg.newPin ELSE tk.arg.pin]

\* setPIN and updatePIN after `await hashString(...)`.
hashed(tk) ==
  [tk EXCEPT !.pc = "call",
             !.hp = hashString(IF tk.op = "updatePIN" THEN tk.arg.newPin
                               ELSE tk.arg.pin)]

\* The onsuccess handler of the request of task tk, run on the stores as the
\* request found them; key is the key an add was given.
onsuccess(tk, recs, sets, key) ==
  LET kind == RequestKind(tk) IN
  CASE kind = "openCursor" -> addAuthor(tk, authorExists(recs, tk.arg.name))
    [] kind = "add" -> Resolve(tk, <<key>>)
    [] kind = "getAll" -> Resolve(tk, <<recs>>)
    [] kind = "get" ->
         IF tk.op = "isPINSet" THEN isPINSet(tk, get(sets, "pin"))
         ELSE verifyPIN(tk, get(sets, "pin"))
    [] OTHER -> Resolve(tk, <<>>)

\* The onerror handler of the request of task tk.  authorExists sets none: its
\* promise stays pending.  verifyPIN and isPINSet resolve with false.
onerror(tk) ==
  LET kind == RequestKind(tk) IN
  CASE kind = "openCursor" -> [tk EXCEPT !.pc = "hung"]
    [] kind = "get" ->
         IF tk.op = "isPINSet" THEN Resolve(tk, <<FALSE>>)
         ELSE verifyPINResolves(tk, FALSE)
    [] OTHER -> Reject(tk, "request.error")

\* A put that also empties blockedAuthors.
authorsAfterPut(tk, recs, key) ==
  LET kind == RequestKind(tk) IN
  CASE kind = "add" -> addRecord(recs, key, tk.arg.name)
    [] kind = "delete" -> deleteRecord(recs, tk.arg.id)
    [] kind \in {"clear", "put"} -> clear(recs)
    [] OTHER -> recs

\* The effect of the request of task tk on blockedAuthors and on settings.
authorsAfter(tk, recs, key) ==
  LET kind == RequestKind(tk) IN
  CASE kind = "add" -> addRecord(recs, key, tk.arg.name)
    [] kind = "delete" -> deleteRecord(recs, tk.arg.id)
    [] kind = "clear" -> clear(recs)
    [] OTHER -> recs

settingsAfter(tk, sets) ==
  IF RequestKind(tk) = "put" THEN put(sets, pinRecord(tk.hp)) ELSE sets

\* ------------------------------------------------- the popup's handlers

\* What a handler sees and changes besides its own task: w.rendered says that
\* render() replaced the DOM in this step.
World == [state |-> state, shown |-> shown, replies |-> replies, rendered |-> FALSE]

\* A finished activation.  The caller of an exported function keeps what the
\* call returned; of a handler only its alert and its error are left.
Done(tk) ==
  IF tk.hd = "api" THEN [tk EXCEPT !.pc = "done"]
  ELSE [Idle EXCEPT !.pc = "done", !.err = tk.err, !.alert = tk.alert]

\* changeState(newState): sets state and renders the view anew.
changeState(newState, w) ==
  [w EXCEPT !.state = newState, !.shown = <<>>, !.rendered = TRUE]

\* refreshAuthorsList up to `await getAuthors()`: clears the rendered list.
refreshAuthorsList(tk, w) ==
  IF w.state # "app"
  THEN [tk |-> [Done(tk) EXCEPT !.err = "TypeError"], w |-> w]
  ELSE [tk |-> begin([tk EXCEPT !.hd = "refreshAuthorsList", !.op = "getAuthors",
                                !.out = "none", !.val = <<>>, !.stale = FALSE,
                                !.before = w.shown]),
        w |-> [w EXCEPT !.shown = <<>>]]

\* refreshAuthorsList after `await getAuthors()`: one <li> per author, appended
\* to the list element the call took before the await.
listAuthors(tk, w) ==
  IF tk.out = "resolved" /\ ~tk.stale
  THEN [tk |-> Done(tk), w |-> [w EXCEPT !.shown = w.shown \o tk.val[1]]]
  ELSE [tk |-> Done(tk), w |-> w]

\* submitPIN not looking at isPINValid.
submitPINAlways(tk, w) == refreshAuthorsList(tk, changeState("app", w))

\* submitPIN after `await verifyPIN(pin)`; stateHandler("app") renders the app
\* view, whose setListeners starts refreshAuthorsList.
submitPIN(tk, w) ==
  IF tk.val[1]
  THEN refreshAuthorsList(tk, changeState("app", w))
  ELSE [tk |-> [Done(tk) EXCEPT !.alert = "Invalid PIN!"], w |-> w]

\* handleLogin: `await submitPIN(pin, changeState)`.
handleLogin(tk, w) ==
  IF tk.out # "resolved" THEN [tk |-> Done(tk), w |-> w]
  ELSE submitPIN(tk, w)

\* The DOMContentLoaded handler starting with the login view whatever pinSet is.
DOMContentLoadedLogin(tk, w) ==
  IF tk.out # "resolved" THEN [tk |-> Done(tk), w |-> w]
  ELSE [tk |-> Done(tk), w |-> changeState("login", w)]

\* The DOMContentLoaded handler after `await isPINSet()`.
DOMContentLoaded(tk, w) ==
  IF tk.out # "resolved" THEN [tk |-> Done(tk), w |-> w]
  ELSE [tk |-> Done(tk),
        w |-> changeState(IF tk.val[1] THEN "login" ELSE "setPIN", w)]

\* handlePINConfirmation going to the login view also when setPIN was rejected.
handlePINConfirmationAnyway(tk, w) ==
  [tk |-> [Done(tk) EXCEPT !.alert = "Pin added successfully!"],
   w |-> changeState("login", w)]

\* handlePINConfirmation after `await setPIN(pinValue)`.
handlePINConfirmation(tk, w) ==
  IF tk.out # "resolved" THEN [tk |-> Done(tk), w |-> w]
  ELSE [tk |-> [Done(tk) EXCEPT !.alert = "Pin added successfully!"],
        w |-> changeState("login", w)]

\* handleChangePIN going on to setPIN whatever verifyPIN returned.
handleChangePINUnverified(tk, w) ==
  IF tk.out # "resolved" THEN [tk |-> Done(tk), w |-> w]
  ELSE IF tk.op = "verifyPIN"
  THEN [tk |-> begin([tk EXCEPT !.op = "setPIN", !.arg.pin = tk.arg.newPin,
                                !.out = "none", !.val = <<>>]),
        w |-> w]
  ELSE [tk |-> [Done(tk) EXCEPT !.alert = "PIN changed successfully!"],
        w |-> changeState("login", w)]

\* handleChangePIN after `await verifyPIN(currentPinValue)` and after
\* `await setPIN(pinValue)`.
handleChangePIN(tk, w) ==
  IF tk.out # "resolved" THEN [tk |-> Done(tk), w |-> w]
  ELSE IF tk.op = "verifyPIN"
  THEN IF ~tk.val[1]
       THEN [tk |-> [Done(tk) EXCEPT !.alert = "Invalid current PIN!"], w |-> w]
       ELSE [tk |-> begin([tk EXCEPT !.op = "setPIN", !.arg.pin = tk.arg.newPin,
                                     !.out = "none", !.val = <<>>]),
             w |-> w]
  ELSE [tk |-> [Done(tk) EXCEPT !.alert = "PIN changed successfully!"],
        w |-> changeState("login", w)]

\* handleSaveAuthor after `await addAuthor(authorName)`.
handleSaveAuthor(tk, w) ==
  IF tk.out # "resolved" \/ w.state # "app"
  THEN [tk |-> [Done(tk) EXCEPT !.err = "Error saving the author:"], w |-> w]
  ELSE refreshAuthorsList(tk, w)

\* deleteBtnFnc after `await deleteFnc(data)`.
deleteBtnFnc(tk, w) ==
  IF tk.out # "resolved" THEN [tk |-> Done(tk), w |-> w]
  ELSE refreshAuthorsList(tk, w)

\* The listener answering with the records only once a PIN is set.
onMessageGated(tk, w) ==
  [tk |-> Done(tk),
   w |-> [w EXCEPT !.replies[tk.m] =
            Append(@, IF tk.out = "resolved" /\ settings # {} THEN tk.val[1] ELSE <<>>)]]

\* The listener without its catch: a rejected getAuthors() is not answered.
onMessageNoCatch(tk, w) ==
  [tk |-> Done(tk),
   w |-> IF tk.out = "resolved"
         THEN [w EXCEPT !.replies[tk.m] = Append(@, tk.val[1])]
         ELSE w]

\* The background listener after getAuthors() settles.
onMessage(tk, w) ==
  [tk |-> Done(tk),
   w |-> [w EXCEPT !.replies[tk.m] =
            Append(@, IF tk.out = "resolved" THEN tk.val[1] ELSE <<>>)]]

\* What the caller of a settled store operation does next.
After(tk, w) ==
  CASE tk.hd = "DOMContentLoaded" -> DOMContentLoaded(tk, w)
    [] tk.hd = "handleLogin" -> handleLogin(tk, w)
    [] tk.hd = "handlePINConfirmation" -> handlePINConfirmation(tk, w)
    [] tk.hd = "handleChangePIN" -> handleChangePIN(tk, w)
    [] tk.hd = "handleSaveAuthor" -> handleSaveAuthor(tk, w)
    [] tk.hd = "deleteBtnFnc" -> deleteBtnFnc(tk, w)
    [] tk.hd = "refreshAuthorsList" -> listAuthors(tk, w)
    [] tk.hd = "onMessage" -> onMessage(tk, w)
    [] OTHER -> [tk |-> Done(tk), w |-> w]

\* A task from an event up to its next suspension.
RECURSIVE Run(_, _, _)
Run(tk, w, env) ==
  CASE tk.pc = "call" -> Run(openDatabase(tk, env), w, env)
    [] tk.pc = "ret" -> Run(After(tk, w).tk, After(tk, w).w, env)
    [] OTHER -> [tk |-> tk, w |-> w]

Env == [db |-> db, opens |-> opens, storeNames |-> storeNames]

\* Task t goes on as tk; q0 is the request queue without it.
Commit(t, tk, q0, env) ==
  LET r == Run(tk, World, env) IN
  /\ tasks' = [u \in Procs |->
                 IF u = t THEN r.tk
                 ELSE IF r.w.rendered /\ tasks[u].hd = "refreshAuthorsList"
                 THEN [tasks[u] EXCEPT !.stale = TRUE]
                 ELSE tasks[u]]
  /\ queue' = IF r.tk.pc = "req" THEN Append(q0, t) ELSE q0
  /\ opens' = IF r.tk.pc = "opening"
              THEN Append(env.opens, [ctx |-> r.tk.ctx, st |-> "pending"])
              ELSE env.opens
  /\ state' = r.w.state
  /\ shown' = r.w.shown
  /\ replies' = r.w.replies

\* ------------------------------------------------------------ actions

Init ==
  /\ authors = <<>>
  /\ nextKey = 1
  /\ settings = {}
  /\ dbVersion = 0
  /\ storeNames = {}
  /\ opens = <<>>
  /\ db = [c \in Ctxs |-> 0]
  /\ tasks = [t \in Procs |-> Idle]
  /\ queue = <<>>
  /\ state = "boot"
  /\ shown = <<>>
  /\ replies = [m \in 1..MaxMsgs |-> <<>>]
  /\ last = NoCall
  /\ pinWrites = FALSE

\* Keys still to be handed out suffice for the adds under way and one more.
KeysLeft ==
  nextKey + Cardinality({t \in Procs : Active(t) /\ tasks[t].op = "addAuthor"}) <= MaxKey

\* Open requests still to be issued suffice for the calls under way and one
\* more: a call issues at most one.
OpensLeft ==
  Len(opens) + Cardinality({t \in Procs : Active(t)}) < 2 * Cardinality(Procs)

\* Slot t starts running tk, a task about to call its store operation.
Call(t, tk) ==
  /\ ~Active(t)
  /\ OpensLeft
  /\ tk.op = "addAuthor" => KeysLeft
  /\ Commit(t, begin(tk), queue, Env)
  /\ UNCHANGED <<storeVars, db, pinWrites>>

\* A caller of the exported functions of indexedDBService calls one.
ApiCall(t, op, arg) == Call(t, [Idle EXCEPT !.op = op, !.hd = "api", !.arg = arg])

ApiArgs(op) ==
  CASE op = "addAuthor" -> {[NoArg EXCEPT !.name = n] : n \in NameInputs}
    [] op = "deleteAuthor" -> {[NoArg EXCEPT !.id = i] : i \in IdInputs}
    [] op \in {"setPIN", "verifyPIN"} -> {[NoArg EXCEPT !.pin = p] : p \in PinInputs}
    [] op = "updatePIN" ->
         {[NoArg EXCEPT !.pin = p, !.newPin = q] : p \in PinInputs, q \in PinInputs}
    [] OTHER -> {NoArg}

ApiOps == {"addAuthor", "deleteAuthor", "getAuthors", "clearAuthors",
           "setPIN", "verifyPIN", "updatePIN", "isPINSet"}

\* crypto.subtle.digest settles for setPIN or updatePIN.
HashDone(t) ==
  /\ tasks[t].pc = "hash"
  /\ Commit(t, hashed(tasks[t]), queue, Env)
  /\ UNCHANGED <<storeVars, db, last, pinWrites>>

\* crypto.subtle.digest settles inside verifyPIN's onsuccess.
CompareDone(t) ==
  /\ tasks[t].pc = "cmp"
  /\ Commit(t, comparePIN(tasks[t]), queue, Env)
  /\ UNCHANGED <<storeVars, db, last, pinWrites>>

\* The request of task t is carried out and its success event delivered.
Complete(t) ==
  /\ \E i \in 1..Len(queue) : queue[i] = t /\ CanRun(i)
  /\ authors' = authorsAfter(tasks[t], authors, nextKey)
  /\ nextKey' = IF RequestKind(tasks[t]) = "add" THEN nextKey + 1 ELSE nextKey
  /\ settings' = settingsAfter(tasks[t], settings)
  /\ pinWrites' = (pinWrites \/ RequestKind(tasks[t]) = "put")
  /\ Commit(t, onsuccess(tasks[t], authors, settings, nextKey), Without(queue, t), Env)
  /\ UNCHANGED <<dbVersion, storeNames, db, last>>

\* Open requests on one database are served one after the other.
Served(h) == \A g \in 1..(h - 1) : opens[g].st \in {"done", "error"}

\* request.onupgradeneeded: the stored version is behind.
UpgradeNeeded(h) ==
  /\ h \in 1..Len(opens)
  /\ opens[h].st = "pending"
  /\ Served(h)
  /\ dbVersion < DBVersion
  /\ opens' = [opens EXCEPT ![h].st = "upgrading"]
  /\ db' = [db EXCEPT ![opens[h].ctx] = h]
  /\ storeNames' = storeNames \cup {"blockedAuthors", "settings"}
  /\ dbVersion' = DBVersion
  /\ UNCHANGED <<authors, nextKey, settings, tasks, queue, state, shown,
                 replies, last, pinWrites>>

Opener(h) == CHOOSE t \in Procs : tasks[t].pc = "opening" /\ tasks[t].h = h

\* request.onsuccess of an open request, and the caller's continuation.
OpenSuccess(h) ==
  /\ h \in 1..Len(opens)
  /\ IF opens[h].st = "pending" THEN Served(h) /\ dbVersion = DBVersion
     ELSE opens[h].st = "upgrading"
  /\ db' = [db EXCEPT ![opens[h].ctx] = h]
  /\ LET env == [db |-> [db EXCEPT ![opens[h].ctx] = h],
                 opens |-> [opens EXCEPT ![h].st = "done"],
                 storeNames |-> storeNames]
     IN Commit(Opener(h), transaction(tasks[Opener(h)], h, env), queue, env)
  /\ UNCHANGED <<storeVars, last, pinWrites>>

Engine ==
  \/ \E t \in Procs : HashDone(t)
  \/ \E t \in Procs : CompareDone(t)
  \/ \E t \in Procs : Complete(t)
  \/ \E h \in 1..(2 * Cardinality(Procs)) : UpgradeNeeded(h)
  \/ \E h \in 1..(2 * Cardinality(Procs)) : OpenSuccess(h)

\* Calls of the exported functions, each made once the one before has settled.
SeqCall ==
  /\ \A t \in Procs : ~Active(t)
  /\ \E op \in ApiOps : \E arg \in ApiArgs(op) : ApiCall(1, op, arg)
  /\ last' = IF tasks[1].pc = "done" THEN Summary(tasks[1]) ELSE last

SeqNext == SeqCall \/ Engine

SeqSpec == Init /\ [][SeqNext]_vars

\* Calls of the exported functions by callers that do not wait for each other.
FreeSlot == CHOOSE t \in Procs : ~Active(t) /\ \A u \in Procs : ~Active(u) => t <= u

AnyCall ==
  /\ \E t \in Procs : ~Active(t)
  /\ \E op \in ApiOps : \E arg \in ApiArgs(op) : ApiCall(FreeSlot, op, arg)
  /\ UNCHANGED last

Next == AnyCall \/ Engine

Spec == Init /\ [][Next]_vars

\* ------------------------------------------------------- the popup UI

FieldInputs == PinInputs \cup {<<"1", "2", "3">>, <<"1", "2", "3", "4", "5", "a">>}
AuthorNameInputs == NameInputs \cup {<<>>}

Digits == {"0", "1", "2", "3", "4", "5", "6", "7", "8", "9"}

\* /^\d{6}$/.test(value)
sixDigits(value) == Len(value) = 6 /\ \A i \in 1..Len(value) : value[i] \in Digits

\* setPINView: what validatePIN and handlePINConfirmation both test.
validatePIN(pinValue, confirmPinValue) ==
  sixDigits(pinValue) /\ pinValue = confirmPinValue

\* validatePINInputs not comparing the new PIN with its confirmation.
validatePINInputsUnconfirmed(currentPinValue, pinValue, confirmPinValue) ==
  sixDigits(currentPinValue) /\ sixDigits(pinValue)

\* changePINView.validatePINInputs: savePinBtn is enabled exactly if it holds.
validatePINInputs(currentPinValue, pinValue, confirmPinValue) ==
  sixDigits(currentPinValue) /\ sixDigits(pinValue) /\ pinValue = confirmPinValue

\* A synchronous changeState(newState) from a click handler.
Render(newState) ==
  /\ state' = newState
  /\ shown' = <<>>
  /\ tasks' = [u \in Procs |->
                 IF tasks[u].hd = "refreshAuthorsList"
                 THEN [tasks[u] EXCEPT !.stale = TRUE] ELSE tasks[u]]
  /\ UNCHANGED <<storeVars, opens, db, queue, replies, last, pinWrites>>

\* The popup opens: DOMContentLoaded calls isPINSet.
Boot ==
  /\ state = "boot"
  /\ \A t \in Procs : tasks[t].pc = "idle"
  /\ Call(1, [Idle EXCEPT !.op = "isPINSet", !.hd = "DOMContentLoaded"])
  /\ UNCHANGED last

\* loginButton
ClickLogin ==
  /\ state = "login"
  /\ \E t \in Procs : ~Active(t)
  /\ \E pin \in FieldInputs :
       Call(FreeSlot, [Idle EXCEPT !.op = "verifyPIN", !.hd = "handleLogin",
                                   !.arg.pin = pin])
  /\ UNCHANGED last

\* changePINButton
ClickChangePIN == state = "login" /\ Render("changePIN")

\* savePinBtn of the set-PIN view; it is enabled only while validatePIN holds.
ClickSavePIN ==
  /\ state = "setPIN"
  /\ \E t \in Procs : ~Active(t)
  /\ \E pinValue \in FieldInputs, confirmPinValue \in FieldInputs :
       /\ validatePIN(pinValue, confirmPinValue)
       /\ Call(FreeSlot, [Idle EXCEPT !.op = "setPIN", !.hd = "handlePINConfirmation",
                                      !.arg.pin = pinValue,
                                      !.arg.confirm = confirmPinValue])
  /\ UNCHANGED last

\* savePinBtn of the change-PIN view; enabled only while validatePINInputs holds.
ClickChangeSave ==
  /\ state = "changePIN"
  /\ \E t \in Procs : ~Active(t)
  /\ \E cur \in FieldInputs, pinValue \in FieldInputs, confirmPinValue \in FieldInputs :
       /\ validatePINInputs(cur, pinValue, confirmPinValue)
       /\ Call(FreeSlot, [Idle EXCEPT !.op = "verifyPIN", !.hd = "handleChangePIN",
                                      !.arg.pin = cur, !.arg.newPin = pinValue,
                                      !.arg.confirm = confirmPinValue])
  /\ UNCHANGED last

\* saveButton of the app view; an empty authorName does nothing.
ClickSaveAuthor ==
  /\ state = "app"
  /\ \E t \in Procs : ~Active(t)
  /\ \E authorName \in AuthorNameInputs :
       /\ authorName # <<>>
       /\ Call(FreeSlot, [Idle EXCEPT !.op = "addAuthor", !.hd = "handleSaveAuthor",
                                      !.arg.name = authorName])
  /\ UNCHANGED last

\* The delete button of a listed author.
ClickDelete ==
  /\ state = "app"
  /\ \E t \in Procs : ~Active(t)
  /\ \E i \in 1..Len(shown) :
       Call(FreeSlot, [Idle EXCEPT !.op = "deleteAuthor", !.hd = "deleteBtnFnc",
                                   !.arg.id = shown[i].id])
  /\ UNCHANGED last

\* logOutButton
ClickLogOut == state = "app" /\ Render("login")

UINext ==
  \/ Boot
  \/ ClickLogin
  \/ ClickChangePIN
  \/ ClickSavePIN
  \/ ClickChangeSave
  \/ ClickSaveAuthor
  \/ ClickDelete
  \/ ClickLogOut
  \/ Engine

UISpec == Init /\ [][UINext]_vars

\* ----------------------------------------------- the background script

\* What earlier popup sessions may have left on disk when the background
\* script starts: nothing, or a database of version 2.
Persisted ==
  {[authors |-> a, nextKey |-> IF a = <<>> THEN 1 ELSE a[Len(a)].id + 1,
    settings |-> s] :
     a \in {<<>>,
            <<[id |-> 1, name |-> <<"a", "b">>]>>,
            <<[id |-> 2, name |-> <<"c">>]>>,
            <<[id |-> 1, name |-> <<"a", "b">>], [id |-> 2, name |-> <<"c">>]>>},
     s \in {{}, {pinRecord(hashString(<<"1", "2", "3", "4", "5", "6">>))}}}

BgInit ==
  /\ \/ /\ dbVersion = 0
        /\ storeNames = {}
        /\ authors = <<>>
        /\ nextKey = 1
        /\ settings = {}
     \/ /\ dbVersion = DBVersion
        /\ storeNames = {"blockedAuthors", "settings"}
        /\ \E p \in Persisted :
             authors = p.authors /\ nextKey = p.nextKey /\ settings = p.settings
  /\ opens = <<>>
  /\ db = [c \in Ctxs |-> 0]
  /\ tasks = [t \in Procs |-> Idle]
  /\ queue = <<>>
  /\ state = "boot"
  /\ shown = <<>>
  /\ replies = [m \in 1..MaxMsgs |-> <<>>]
  /\ last = NoCall
  /\ pinWrites = FALSE

Received(m) == replies[m] # <<>> \/ \E t \in Procs : Active(t) /\ tasks[t].m = m

\* chrome.runtime.onMessage: a content script asks for the blocked authors.
Message ==
  /\ \E t \in Procs : ~Active(t)
  /\ \E m \in 1..MaxMsgs :
       /\ ~Received(m)
       /\ \A k \in 1..(m - 1) : Received(k)
       /\ Call(FreeSlot, [Idle EXCEPT !.op = "getAuthors", !.hd = "onMessage",
                                      !.ctx = "bg", !.m = m])
  /\ UNCHANGED last

\* The background script hashes nothing: its events are those of open requests
\* and of getAll.
BgNext ==
  \/ Message
  \/ \E t \in Procs : Complete(t)
  \/ \E h \in 1..(2 * Cardinality(Procs)) : UpgradeNeeded(h)
  \/ \E h \in 1..(2 * Cardinality(Procs)) : OpenSuccess(h)

BgSpec == BgInit /\ [][BgNext]_vars

\* ----------------------------------------------------- storage faults

\* The request of task t fails and its error event is delivered; a failed
\* request changes nothing in its store.
Fail(t) ==
  /\ \E i \in 1..Len(queue) : queue[i] = t /\ CanRun(i)
  /\ Commit(t, onerror(tasks[t]), Without(queue, t), Env)
  /\ UNCHANGED <<storeVars, db, last, pinWrites>>

\* request.onerror of an open request: reject("IndexedDB error:").  A failure
\* after onupgradeneeded aborts the upgrade, which undoes the creation of the
\* database; `db` keeps the handle onupgradeneeded stored.
OpenError(h) ==
  /\ h \in 1..Len(opens)
  /\ IF opens[h].st = "pending" THEN Served(h) ELSE opens[h].st = "upgrading"
  /\ dbVersion' = IF opens[h].st = "upgrading" THEN 0 ELSE dbVersion
  /\ storeNames' = IF opens[h].st = "upgrading" THEN {} ELSE storeNames
  /\ LET env == [db |-> db,
                 opens |-> [opens EXCEPT ![h].st = "error"],
                 storeNames |-> storeNames']
     IN Commit(Opener(h), Reject(tasks[Opener(h)], "IndexedDB error:"), queue, env)
  /\ UNCHANGED <<authors, nextKey, settings, db, last, pinWrites>>

Faults ==
  \/ \E t \in Procs : Fail(t)
  \/ \E h \in 1..(2 * Cardinality(Procs)) : OpenError(h)

\* Awaited calls of the exported functions on a storage that may fail.
FaultCall ==
  /\ \A t \in Procs : ~Active(t)
  /\ \E op \in ApiOps : \E arg \in ApiArgs(op) : ApiCall(1, op, arg)
  /\ UNCHANGED last

FaultNext == FaultCall \/ Engine \/ Faults

FaultSpec == Init /\ [][FaultNext]_vars

\* The background script on a storage that may fail.
BgFaultNext == BgNext \/ Faults

\* Every request IndexedDB has accepted gets its success or its error event.
BgFairness ==
  /\ \A t \in Procs : WF_vars(Complete(t) \/ Fail(t))
  /\ \A h \in 1..(2 * Cardinality(Procs)) :
       WF_vars(UpgradeNeeded(h) \/ OpenSuccess(h) \/ OpenError(h))

BgFairSpec == BgInit /\ [][BgFaultNext]_vars /\ BgFairness

\* The popup is opened on what earlier sessions left, and the user logs in.
BootNext ==
  \/ Boot
  \/ ClickLogin
  \/ \E t \in Procs : CompareDone(t)
  \/ \E t \in Procs : Complete(t)
  \/ \E h \in 1..(2 * Cardinality(Procs)) : UpgradeNeeded(h)
  \/ \E h \in 1..(2 * Cardinality(Procs)) : OpenSuccess(h)

BootSpec == BgInit /\ [][BootNext]_vars

\* Overlapping addAuthor calls, as two clicks on saveButton make them.
AddCall ==
  /\ \E t \in Procs : ~Active(t)
  /\ \E arg \in ApiArgs("addAuthor") : ApiCall(FreeSlot, "addAuthor", arg)
  /\ UNCHANGED last

RaceNext ==
  \/ AddCall
  \/ \E t \in Procs : Complete(t)
  \/ \E h \in 1..(2 * Cardinality(Procs)) : UpgradeNeeded(h)
  \/ \E h \in 1..(2 * Cardinality(Procs)) : OpenSuccess(h)

RaceSpec == Init /\ [][RaceNext]_vars

\* Overlapping calls of the functions that write the PIN.
PinCall ==
  /\ \E t \in Procs : ~Active(t)
  /\ \E op \in {"setPIN", "updatePIN"} : \E arg \in ApiArgs(op) :
       ApiCall(FreeSlot, op, arg)
  /\ UNCHANGED last

PinRaceNext ==
  \/ PinCall
  \/ \E t \in Procs : HashDone(t)
  \/ \E t \in Procs : CompareDone(t)
  \/ \E t \in Procs : Complete(t)
  \/ \E h \in 1..(2 * Cardinality(Procs)) : UpgradeNeeded(h)
  \/ \E h \in 1..(2 * Cardinality(Procs)) : OpenSuccess(h)

PinRaceSpec == Init /\ [][PinRaceNext]_vars

\* The set-PIN, login and change-PIN views of a popup opened on what earlier
\* sessions left, on a storage that may fail.
PinViewNext ==
  \/ Boot
  \/ ClickSavePIN
  \/ ClickChangePIN
  \/ ClickChangeSave
  \/ Engine
  \/ Faults

PinViewSpec == BgInit /\ [][PinViewNext]_vars

\* The login and app views of a popup opened on what earlier sessions left, on
\* a storage that may fail.
AppViewNext ==
  \/ Boot
  \/ ClickLogin
  \/ ClickSaveAuthor
  \/ ClickDelete
  \/ ClickLogOut
  \/ \E t \in Procs : CompareDone(t)
  \/ \E t \in Procs : Complete(t)
  \/ \E h \in 1..(2 * Cardinality(Procs)) : UpgradeNeeded(h)
  \/ \E h \in 1..(2 * Cardinality(Procs)) : OpenSuccess(h)
  \/ Faults

AppViewSpec == BgInit /\ [][AppViewNext]_vars

\* The digest computation or the request a call waits for completes: the event
\* loop delivers its success or its error event.
FaultFairness == WF_vars(Engine \/ Faults)

FaultFairSpec == Init /\ [][FaultNext]_vars /\ FaultFairness

\* ------------------------------------------------------------- claims

Range(f) == {f[i] : i \in DOMAIN f}

\* Some stored author has this name, case-insensitively.
Stored(name) == \E i \in 1..Len(authors) : toLowerCase(authors[i].name) = toLowerCase(name)

\* The "pin" record holds the digest of p.
PinIs(p) == \E r \in settings : r.id = "pin" /\ r.value = hashString(p)

\* The call in slot 1 has settled.
Settled(op) == tasks[1].pc = "done" /\ tasks[1].hd = "api" /\ tasks[1].op = op

\* A call in slot 1 is under way.
Running(op) == Active(1) /\ tasks[1].hd = "api" /\ tasks[1].op = op

\* C1: after any sequence of addAuthor, deleteAuthor and clearAuthors calls that
\* do not overlap, no two records of blockedAuthors have the same lowercase
\* name, and a completed addAuthor(n) leaves exactly one record for n.
C1_OneRecordPerName ==
  /\ \A i, j \in 1..Len(authors) :
       toLowerCase(authors[i].name) = toLowerCase(authors[j].name) => i = j
  /\ (Settled("addAuthor") /\ tasks[1].out = "resolved") =>
       Cardinality({i \in 1..Len(authors) :
                      toLowerCase(authors[i].name) = toLowerCase(tasks[1].arg.name)}) = 1

\* addAuthor(n1) stored a record, addAuthor(n2) with n2 # n1 equal to it
\* case-insensitively has completed, and one record is stored.
C1_Witness ==
  /\ last.op = "addAuthor" /\ last.out = "resolved" /\ last.alert = "none"
  /\ Settled("addAuthor")
  /\ tasks[1].arg.name # last.arg.name
  /\ toLowerCase(tasks[1].arg.name) = toLowerCase(last.arg.name)
  /\ Len(authors) = 1

\* C2: verifyPIN(p) resolves, and with true exactly if a "pin" record exists
\* whose value is hash(p); with no PIN set it resolves with false.
C2_VerifyIffDigestMatches ==
  Settled("verifyPIN") =>
    /\ tasks[1].out = "resolved"
    /\ tasks[1].val = <<PinIs(tasks[1].arg.pin)>>
    /\ settings = {} => tasks[1].val = <<FALSE>>

\* A verifyPIN that returned true, after one that returned false.
C2_Witness ==
  /\ Settled("verifyPIN") /\ tasks[1].val = <<TRUE>>
  /\ last.op = "verifyPIN" /\ last.val = <<FALSE>>

\* A step that brings the popup to "app" is the step in which the digest
\* comparison of a verifyPIN called by handleLogin comes out equal.
C3_Step ==
  (state' = "app" /\ state # "app") =>
    \E t \in Procs :
      /\ tasks[t].hd = "handleLogin" /\ tasks[t].op = "verifyPIN"
      /\ tasks[t].pc = "cmp"
      /\ tasks[t].got = hashString(tasks[t].arg.pin)
      /\ tasks'[t].pc # "cmp"

\* C3: the popup's state becomes "app" only as the result of a verifyPIN call
\* that returned true (the one submitPIN awaits); no other step sets it.
C3_AppOnlyAfterVerify == [][C3_Step]_vars

\* The app view is shown.
C3_Witness == state = "app" /\ pinWrites

\* While updatePIN runs and old does not verify, nothing is written, and the
\* call can only end rejected.
C4_Step ==
  (Running("updatePIN") /\ ~PinIs(tasks[1].arg.pin)) =>
    /\ settings' = settings
    /\ pinWrites' = pinWrites
    /\ tasks'[1].pc = "done" =>
         tasks'[1].out = "rejected" /\ tasks'[1].err = "Old PIN is incorrect."

\* C4: when old does not verify against the stored digest, updatePIN(old, new)
\* fails with "Old PIN is incorrect.", performs no write, and leaves the stored
\* digest, or its absence, unchanged.
C4_FailedUpdateWritesNothing == [][C4_Step]_vars

\* An updatePIN with a wrong old PIN was rejected while a PIN is set.
C4_Witness ==
  /\ Settled("updatePIN")
  /\ tasks[1].out = "rejected" /\ tasks[1].err = "Old PIN is incorrect."
  /\ settings # {}
  /\ ~PinIs(tasks[1].arg.pin)

\* C5 as stated: after a successful updatePIN(old, new), verifyPIN(new) returns
\* true and verifyPIN(old) returns false, for every pair (old, new).
C5_AsStated ==
  (last.op = "updatePIN" /\ last.out = "resolved" /\ Settled("verifyPIN")) =>
    /\ tasks[1].arg.pin = last.arg.newPin => tasks[1].val = <<TRUE>>
    /\ tasks[1].arg.pin = last.arg.pin => tasks[1].val = <<FALSE>>

\* C5 amended: updatePIN(old, new) is rejected only if old does not verify;
\* after it succeeded the stored digest is hash(new), verifyPIN(new) returns
\* true, and verifyPIN(old) returns false unless hash(old) = hash(new).
C5_UpdateThenVerify ==
  /\ Settled("updatePIN") =>
       IF tasks[1].out = "resolved" THEN PinIs(tasks[1].arg.newPin)
       ELSE ~PinIs(tasks[1].arg.pin)
  /\ (last.op = "updatePIN" /\ last.out = "resolved" /\ Settled("verifyPIN")) =>
       /\ tasks[1].arg.pin = last.arg.newPin => tasks[1].val = <<TRUE>>
       /\ (/\ tasks[1].arg.pin = last.arg.pin
           /\ hashString(last.arg.pin) # hashString(last.arg.newPin)) =>
            tasks[1].val = <<FALSE>>

\* updatePIN(old, new) with new # old succeeded, then verifyPIN(old) returned.
C5_Witness ==
  /\ last.op = "updatePIN" /\ last.out = "resolved"
  /\ last.arg.pin # last.arg.newPin
  /\ Settled("verifyPIN")
  /\ tasks[1].arg.pin = last.arg.pin
  /\ tasks[1].val = <<FALSE>>

\* C6: in each context at most one indexedDB.open request is ever issued, also
\* when several callers arrive before the first open has completed, and all
\* tasks holding a handle hold the same one.
C6_OpenedOnce ==
  /\ \A c \in Ctxs : Cardinality({h \in 1..Len(opens) : opens[h].ctx = c}) <= 1
  /\ \A t, u \in Procs :
       (tasks[t].h # 0 /\ tasks[u].h # 0 /\ tasks[t].ctx = tasks[u].ctx) =>
         tasks[t].h = tasks[u].h

\* C7: isPINSet() returns false as long as no put on the "pin" record has
\* succeeded, and true ever after one has (a setPIN completes with its put):
\* nothing removes the record.
C7_IsPINSetTracksWrites ==
  Settled("isPINSet") =>
    tasks[1].out = "resolved" /\ tasks[1].val = <<pinWrites>>

\* isPINSet returned true right after a completed setPIN.
C7_Witness ==
  /\ last.op = "setPIN" /\ last.out = "resolved"
  /\ Settled("isPINSet") /\ tasks[1].val = <<TRUE>>

\* While addAuthor runs with a name already stored, the store is left alone and
\* the call can only end declined.
C8_Step ==
  (Running("addAuthor") /\ Stored(tasks[1].arg.name)) =>
    /\ authors' = authors
    /\ nextKey' = nextKey
    /\ tasks'[1].pc = "done" =>
         /\ tasks'[1].out = "resolved"
         /\ tasks'[1].val = <<>>
         /\ tasks'[1].alert = "Author already exists"

\* C8: addAuthor(name) with a name that is already stored case-insensitively
\* inserts nothing, leaves blockedAuthors unchanged, and completes without an
\* error: it reports the duplicate and resolves with no key.
C8_DuplicateAddDeclined == [][C8_Step]_vars

\* A duplicate add has been declined.
C8_Witness ==
  /\ Settled("addAuthor")
  /\ tasks[1].alert = "Author already exists"
  /\ tasks[1].val = <<>>
  /\ Stored(tasks[1].arg.name)

\* Every stored name is lowercase.
C9_AllLowercase ==
  \A i \in 1..Len(authors) : authors[i].name = toLowerCase(authors[i].name)

\* While addAuthor runs with a name not stored, the store changes only in the
\* step that ends the call, by one record under a new key, which is returned.
C9_Step ==
  (Running("addAuthor") /\ ~Stored(tasks[1].arg.name)) =>
    IF tasks'[1].pc = "done"
    THEN /\ tasks'[1].out = "resolved"
         /\ tasks'[1].alert = "none"
         /\ Len(tasks'[1].val) = 1
         /\ \A i \in 1..Len(authors) : authors[i].id # tasks'[1].val[1]
         /\ authors' = Append(authors, [id |-> tasks'[1].val[1],
                                        name |-> toLowerCase(tasks[1].arg.name)])
    ELSE authors' = authors

\* C9: addAuthor(name) with a name not yet stored inserts exactly one record,
\* {name: lowercase(name)}, and returns that record's new key; every name
\* stored in blockedAuthors is lowercase in every reachable state.
C9_AddStoresLowercase == []C9_AllLowercase /\ [][C9_Step]_vars

\* An add of a name with capitals returned the key of its record.
C9_Witness ==
  /\ Settled("addAuthor") /\ tasks[1].alert = "none"
  /\ tasks[1].arg.name # toLowerCase(tasks[1].arg.name)
  /\ Len(tasks[1].val) = 1
  /\ \E i \in 1..Len(authors) :
       authors[i] = [id |-> tasks[1].val[1], name |-> toLowerCase(tasks[1].arg.name)]

\* While deleteAuthor runs, the store changes only in the step that ends the
\* call, and then loses the record with the given key.
C10_Step ==
  Running("deleteAuthor") =>
    IF tasks'[1].pc = "done"
    THEN /\ tasks'[1].out = "resolved"
         /\ Range(authors') = {r \in Range(authors) : r.id # tasks[1].arg.id}
         /\ Len(authors') =
              Len(authors) - Cardinality({i \in 1..Len(authors) :
                                            authors[i].id = tasks[1].arg.id})
         /\ (\A i \in 1..Len(authors) : authors[i].id # tasks[1].arg.id) =>
              authors' = authors
    ELSE authors' = authors

\* C10: deleteAuthor(id) does not raise; for an id that is the key of no stored
\* record it leaves blockedAuthors unchanged, and for an existing id it removes
\* exactly that record and no other.
C10_DeleteRemovesOnlyId == [][C10_Step]_vars

\* deleteAuthor of a key never handed out has resolved on a non-empty store.
C10_Witness ==
  /\ Settled("deleteAuthor") /\ tasks[1].out = "resolved"
  /\ tasks[1].arg.id >= nextKey
  /\ authors # <<>>

\* C11: getAuthors() called after a completed clearAuthors(), with no call in
\* between, returns an empty sequence, whatever the store held before; a
\* completed clearAuthors leaves blockedAuthors empty.
C11_ClearThenGetEmpty ==
  /\ (Settled("clearAuthors") /\ tasks[1].out = "resolved") => authors = <<>>
  /\ (last.op = "clearAuthors" /\ last.out = "resolved" /\ Settled("getAuthors")) =>
       tasks[1].out = "resolved" /\ tasks[1].val = <<(<<>>)>>

\* getAuthors returned the empty sequence after a clearAuthors that followed
\* the adds of all keys of the run.
C11_Witness ==
  /\ last.op = "clearAuthors" /\ last.out = "resolved"
  /\ Settled("getAuthors") /\ tasks[1].val = <<(<<>>)>>
  /\ nextKey = MaxKey + 1

\* C12: settings never holds more than one record with id "pin"; a completed
\* setPIN(p) leaves the digest of p as that record whatever was stored before,
\* and the verifyPIN(q) called next returns true exactly if hash(q) = hash(p).
C12_SetPINOverwrites ==
  /\ Cardinality({r \in settings : r.id = "pin"}) <= 1
  /\ Settled("setPIN") =>
       tasks[1].out = "resolved" /\ settings = {pinRecord(hashString(tasks[1].arg.pin))}
  /\ (last.op = "setPIN" /\ last.out = "resolved" /\ Settled("verifyPIN")) =>
       tasks[1].val = <<hashString(tasks[1].arg.pin) = hashString(last.arg.pin)>>

\* setPIN(p) has completed right after a setPIN of another PIN, and only the
\* digest of p is stored.
C12_Witness ==
  /\ last.op = "setPIN" /\ last.out = "resolved"
  /\ Settled("setPIN")
  /\ hashString(last.arg.pin) # hashString(tasks[1].arg.pin)
  /\ settings = {pinRecord(hashString(tasks[1].arg.pin))}

\* What is stored is a digest, never a PIN, and a verifyPIN that returned true
\* compared the digest it read with the digest of its argument.
C13_DigestsOnly ==
  /\ \A r \in settings :
       /\ r.value \in {hashString(p) : p \in PinInputs}
       /\ r.value \notin PinInputs
  /\ (Settled("verifyPIN") /\ tasks[1].val = <<TRUE>>) =>
       tasks[1].got = hashString(tasks[1].arg.pin)

\* A step that changes settings is the put of a setPIN or updatePIN call, and
\* it stores the digest of the PIN that call was given.
C13_Step ==
  settings' # settings =>
    \E t \in Procs :
      /\ tasks[t].op \in {"setPIN", "updatePIN"}
      /\ tasks[t].pc = "req"
      /\ LET p == IF tasks[t].op = "updatePIN" THEN tasks[t].arg.newPin
                  ELSE tasks[t].arg.pin
         IN settings' = {[id |-> "pin", type |-> "pin", value |-> hashString(p)]}

\* C13: in every reachable state the value of the "pin" record is the digest
\* hash(p) of a PIN p passed to setPIN or updatePIN; the PIN itself is never
\* written to the store, and verifyPIN compares digests only.
C13_OnlyDigestStored == []C13_DigestsOnly /\ [][C13_Step]_vars

\* updatePIN has replaced the digest a setPIN stored by the digest of newPIN.
C13_Witness ==
  /\ last.op = "setPIN" /\ last.out = "resolved"
  /\ Settled("updatePIN") /\ tasks[1].out = "resolved"
  /\ tasks[1].arg.newPin # last.arg.pin
  /\ settings = {pinRecord(hashString(tasks[1].arg.newPin))}

\* A reply to message m is the first one, given as the getAuthors() of its
\* listener settles (at once, for a message that finds a handle it cannot
\* use): the stored records if it resolved, [] if it was rejected.
C14_Step ==
  \A m \in 1..MaxMsgs :
    replies'[m] # replies[m] =>
      /\ replies[m] = <<>>
      /\ \E t \in Procs :
           /\ IF Active(t) THEN tasks[t].hd = "onMessage" /\ tasks[t].m = m
              ELSE ~Received(m) /\ t = FreeSlot
           /\ tasks'[t].pc = "done"
           /\ replies'[m] = <<IF tasks'[t].err = "none" THEN authors ELSE <<>>>>

\* C14: every fetchBlockedAuthors message is eventually answered, and exactly
\* once: with all stored author records when the read succeeds, and with an
\* empty list when opening the database or reading fails.
C14_AnsweredOnce ==
  /\ \A m \in 1..MaxMsgs : Received(m) ~> (Len(replies[m]) = 1)
  /\ [](\A m \in 1..MaxMsgs : Len(replies[m]) <= 1)
  /\ [][C14_Step]_vars

\* One message was answered with the stored records and the other, after a
\* failure, with the empty list although records are stored.
C14_Witness ==
  /\ authors # <<>>
  /\ replies[1] = <<authors>>
  /\ replies[2] = <<(<<>>)>>

\* C15: what fetchBlockedAuthors is answered with is a function of the
\* blockedAuthors store alone: every answer is the list of the stored author
\* records, with a PIN set and with none (so two runs on the same author
\* records and different PIN state get the same list).
C15_AuthorsIndependentOfPIN ==
  \A m \in 1..MaxMsgs : \A i \in 1..Len(replies[m]) : replies[m][i] = authors

\* Stored authors were sent in answer to a message although no PIN is set.
C15_Witness ==
  /\ settings = {}
  /\ authors # <<>>
  /\ replies[1] = <<authors>>
  /\ replies[2] = <<authors>>

\* The step that gives the popup its first state is the one in which the
\* isPINSet() of the DOMContentLoaded handler reads the store.
C16_Step ==
  (state = "boot" /\ state' # "boot") =>
    \E t \in Procs :
      /\ tasks[t].hd = "DOMContentLoaded" /\ tasks[t].op = "isPINSet"
      /\ tasks[t].pc = "req"
      /\ state' = IF \E r \in settings : r.id = "pin" THEN "login" ELSE "setPIN"

\* C16: the popup's first state is "login" if isPINSet() is true, that is if a
\* "pin" record is stored, and "setPIN" otherwise; no other first state occurs,
\* and the popup never goes back to having none.
C16_InitialState ==
  /\ [][C16_Step]_vars
  /\ [][state # "boot" => state' # "boot"]_vars

\* The popup opened on a stored PIN and shows the login view.
C16_Witness ==
  /\ state = "login"
  /\ settings # {}
  /\ \A t \in Procs : ~Active(t) /\ tasks[t].alert = "none"

\* C17: isPINSet() never fails: whenever the store cannot be read, also when
\* the database cannot be opened, it resolves, and with false.
C17_ReadErrorMeansNotSet ==
  Settled("isPINSet") =>
    /\ tasks[1].out = "resolved"
    /\ tasks[1].val \in {<<TRUE>>, <<FALSE>>}
    /\ tasks[1].val = <<TRUE>> => settings # {}

\* The PIN a handler of the set-PIN or change-PIN view is about to store.
NewPINOf(tk) == IF tk.hd = "handleChangePIN" THEN tk.arg.newPin ELSE tk.arg.pin

\* C18: a handler of the set-PIN or change-PIN view calls the store (setPIN,
\* verifyPIN) only with a new PIN of exactly 6 decimal digits that equals the
\* confirmation field, and only digests of such PINs are stored; for other
\* input no call is made and the popup's state stays as it is.
C18_OnlyValidPINsReachStore ==
  /\ \A t \in Procs :
       (Active(t) /\ tasks[t].hd \in {"handlePINConfirmation", "handleChangePIN"}) =>
         /\ sixDigits(NewPINOf(tasks[t]))
         /\ NewPINOf(tasks[t]) = tasks[t].arg.confirm
         /\ tasks[t].op = "setPIN" => tasks[t].arg.pin = NewPINOf(tasks[t])
  /\ \A r \in settings :
       /\ r.value \in {hashString(p) : p \in {f \in FieldInputs : sixDigits(f)}}
       /\ r.value \notin {hashString(p) : p \in {f \in FieldInputs : ~sixDigits(f)}}

\* The change-PIN view has stored a new PIN and returned to the login view.
C18_Witness ==
  /\ \E t \in Procs : tasks[t].alert = "PIN changed successfully!"
  /\ state = "login"
  /\ settings # {}

\* The cursor walk of an addAuthor call inserts nothing; when it finds no match
\* the call goes on to a second request, the add, which inserts its record
\* whatever the store holds by then.
C19_Step ==
  \A t \in Procs :
    (tasks[t].op = "addAuthor" /\ tasks[t].pc = "req" /\ tasks'[t] # tasks[t]) =>
      IF tasks[t].ph = 1
      THEN /\ authors' = authors
           /\ ~Stored(tasks[t].arg.name) =>
                tasks'[t].pc = "req" /\ tasks'[t].ph = 2
      ELSE authors' = Append(authors, [id |-> nextKey,
                                       name |-> toLowerCase(tasks[t].arg.name)])

\* C19: the existence check of addAuthor and its insert are two separate steps
\* with no transaction around both, so that of two overlapping addAuthor calls
\* for case-insensitively equal names both can pass the check and both insert:
\* blockedAuthors then holds two records with the same lowercase name.
C19_CheckThenActNotAtomic == [][C19_Step]_vars

\* Two records with the same lowercase name are stored.
C19_Witness ==
  \E i, j \in 1..Len(authors) :
    i # j /\ toLowerCase(authors[i].name) = toLowerCase(authors[j].name)

\* C20: openDatabase gives a caller only a handle whose open request has
\* succeeded, also to a caller that arrives while the first open or its upgrade
\* is under way: no caller's db.transaction finds the handle it was given
\* unusable (InvalidStateError).
C20_HandleReady ==
  \A t \in Procs : tasks[t].err # "InvalidStateError"

\* The put of an updatePIN call is carried out only while oldPIN verifies
\* against the stored digest.
C21_Step ==
  \A t \in Procs :
    (/\ tasks[t].op = "updatePIN" /\ tasks[t].pc = "req" /\ tasks[t].ph = 2
     /\ tasks'[t] # tasks[t]) =>
      PinIs(tasks[t].arg.pin)

\* C21: in every interleaving with other PIN operations (a setPIN completing
\* between updatePIN's verification and its write, for one), updatePIN(old, new)
\* writes hash(new) only while old verifies against the stored digest.
C21_WriteOnlyWhileVerified == [][C21_Step]_vars

\* The changes of state the popup may make once it has a view: set-up to login,
\* login to app, app to login, and into and out of the change-PIN view from and
\* to login.
C22_Allowed ==
  {<<"setPIN", "login">>, <<"login", "app">>, <<"app", "login">>,
   <<"login", "changePIN">>, <<"changePIN", "login">>}

\* C22: the popup's state makes exactly these transitions: set-up to login on a
\* successful setPIN, login to app on a successful verifyPIN, app to login on
\* log-out or a successful PIN update; the change-PIN state is entered from
\* login and left only for login, after a successful update.
C22_Transitions ==
  [][(state # "boot" /\ state' # state) => <<state, state'>> \in C22_Allowed]_vars

\* A handleChangePIN whose verifyPIN comes out false ends there, with nothing
\* written and the state as it was; it goes on to setPIN only in the step in
\* which the digest read equals that of the current PIN entered, and moves to
\* login only as that setPIN's put has stored the new digest.
C23_Step ==
  \A t \in Procs :
    (Active(t) /\ tasks[t].hd = "handleChangePIN" /\ tasks'[t] # tasks[t]) =>
      IF tasks[t].op = "verifyPIN"
      THEN /\ settings' = settings
           /\ state' = state
           /\ IF tasks[t].pc = "cmp" /\ tasks[t].got = hashString(tasks[t].arg.pin)
              THEN tasks'[t].op = "setPIN" /\ Active(t)'
              ELSE tasks'[t].op # "setPIN" /\
                   (tasks'[t].pc = "done" => tasks'[t].alert = "Invalid current PIN!")
      ELSE IF tasks'[t].pc = "done"
           THEN /\ settings' = {pinRecord(hashString(tasks[t].arg.newPin))}
                /\ state' = "login"
           ELSE settings' = settings /\ state' = state

\* C23: in the change-PIN view, when the current PIN entered does not verify,
\* nothing is written to settings, the stored digest is unchanged and the popup
\* stays in the change-PIN state; the new digest is written, and the state
\* moves to login, only when the current PIN verified.
C23_ChangeNeedsCurrentPIN == [][C23_Step]_vars

\* A change with a wrong current PIN was turned down in the change-PIN view.
C23_Witness ==
  /\ state = "changePIN"
  /\ settings # {}
  /\ \E t \in Procs : tasks[t].pc = "done" /\ tasks[t].alert = "Invalid current PIN!"

\* A handler that ends on a rejected store operation leaves the state and the
\* settings store as they were and announces no success.
C24_Step ==
  \A t \in Procs :
    (tasks'[t] # tasks[t] /\ tasks'[t].pc = "done" /\ tasks'[t].err # "none") =>
      /\ state' = state
      /\ settings' = settings
      /\ tasks'[t].alert = "none"

\* C24: when a store operation called from the popup is rejected (the database
\* cannot be opened, or setPIN's write fails), the popup's state stays as it
\* is: a failed setPIN moves neither the set-up view nor the change-PIN view to
\* login.
C24_RejectedLeavesState == [][C24_Step]_vars

\* setPIN's write failed in the set-up view, which is still shown.
C24_Witness ==
  /\ state = "setPIN"
  /\ \E t \in Procs : tasks[t].pc = "done" /\ tasks[t].err = "request.error"

\* C28: once a "pin" record is stored, the popup overwrites it only on a path
\* that went through a verifyPIN of the current PIN that returned true (the
\* setPIN of handleChangePIN), also after a start-up at which isPINSet's read
\* failed.
C28_NoOverwriteWithoutVerify ==
  [][(settings' # settings /\ settings # {}) =>
       \E t \in Procs :
         /\ tasks[t].hd = "handleChangePIN" /\ tasks[t].op = "setPIN"
         /\ tasks[t].pc = "req" /\ tasks'[t] # tasks[t]]_vars

\* C25: when getAuthors fails inside a list refresh, or addAuthor fails, the
\* author list displayed stays as it was before the operation: it is neither
\* updated in part nor emptied.
C25_ListKeptOnFailure ==
  [][\A t \in Procs :
       (/\ Active(t) /\ tasks'[t].pc = "done" /\ tasks'[t].err # "none"
        /\ tasks[t].hd \in {"refreshAuthorsList", "handleSaveAuthor"}
        /\ state = "app" /\ ~tasks[t].stale) =>
         shown' = IF tasks[t].hd = "refreshAuthorsList" THEN tasks[t].before
                  ELSE shown]_vars

\* C29: once no handler of the app view and no list refresh is under way, the
\* list displayed holds each stored author exactly once, also after two
\* refreshes that overlapped.
C29_ListShowsEachOnce ==
  (state = "app" /\ \A t \in Procs : ~Active(t)) =>
    /\ Len(shown) = Len(authors)
    /\ \A i \in 1..Len(authors) : \E j \in 1..Len(shown) : shown[j] = authors[i]

\* C26: every call of a store operation eventually settles, resolved or
\* rejected, once its requests have completed, with success or with an error;
\* none stays pending for ever after a request error.  (The awaited calls are
\* all made in slot 1.)
C26_EveryOperationSettles == Active(1) ~> ~Active(1)

\* C27: calls made one after the other, each awaited, see the effects of all
\* calls before them: getAuthors returns the store as the calls before left it,
\* so it contains the record of a completed addAuthor and no record with the id
\* of a completed deleteAuthor, and isPINSet and verifyPIN after a completed
\* setPIN see the new digest.
C27_LinearHistory ==
  /\ Settled("getAuthors") =>
       tasks[1].out = "resolved" /\ tasks[1].val = <<authors>>
  /\ (/\ last.op = "addAuthor" /\ last.out = "resolved" /\ Len(last.val) = 1
      /\ Settled("getAuthors")) =>
       \E i \in 1..Len(tasks[1].val[1]) :
         tasks[1].val[1][i] = [id |-> last.val[1], name |-> toLowerCase(last.arg.name)]
  /\ (last.op = "deleteAuthor" /\ last.out = "resolved" /\ Settled("getAuthors")) =>
       \A i \in 1..Len(tasks[1].val[1]) : tasks[1].val[1][i].id # last.arg.id
  /\ (last.op = "setPIN" /\ last.out = "resolved") =>
       /\ Settled("isPINSet") => tasks[1].val = <<TRUE>>
       /\ (Settled("verifyPIN") /\ tasks[1].arg.pin = last.arg.pin) =>
            tasks[1].val = <<TRUE>>

\* addAuthor returned key 1, deleteAuthor(1) completed, and getAuthors()
\* returned the empty sequence.
C27_Witness ==
  /\ last.op = "deleteAuthor" /\ last.out = "resolved" /\ last.arg.id = 1
  /\ nextKey = 2
  /\ Settled("getAuthors") /\ tasks[1].val = <<(<<>>)>>

\* While an author operation runs settings stays as it is, while a PIN
\* operation runs blockedAuthors and its key generator do, and the operations
\* that only read (authorExists inside addAuthor among them) change neither.
C30_Step ==
  /\ (\E op \in {"addAuthor", "deleteAuthor", "clearAuthors", "getAuthors"} : Running(op)) =>
       settings' = settings
  /\ (\E op \in {"setPIN", "verifyPIN", "updatePIN", "isPINSet"} : Running(op)) =>
       authors' = authors /\ nextKey' = nextKey
  /\ (\/ \E op \in {"getAuthors", "verifyPIN", "isPINSet"} : Running(op)
      \/ Running("addAuthor") /\ tasks[1].ph = 1) =>
       authors' = authors /\ nextKey' = nextKey /\ settings' = settings

\* C30: author operations and PIN operations are independent: addAuthor,
\* deleteAuthor, clearAuthors, getAuthors and authorExists never change
\* settings; setPIN, verifyPIN, updatePIN and isPINSet never change
\* blockedAuthors; the read-only operations change neither.
C30_StoresIndependent == [][C30_Step]_vars

\* An author was added while a PIN is stored, and what setPIN stored is still
\* there.
C30_Witness ==
  /\ last.op = "setPIN" /\ last.out = "resolved"
  /\ Settled("addAuthor") /\ Len(tasks[1].val) = 1
  /\ settings = {pinRecord(hashString(last.arg.pin))}

\* `db` holds no handle of an open request that failed.
C31_NoFailedHandle ==
  \A c \in Ctxs : db[c] # 0 => opens[db[c]].st # "error"

\* Once `db` holds the handle of a successful open it keeps it and no further
\* open request is issued; an open request is issued only while `db` is empty.
C31_Step ==
  /\ \A c \in Ctxs :
       (db[c] # 0 /\ opens[db[c]].st = "done") => db'[c] = db[c] /\ opens' = opens
  /\ Len(opens') > Len(opens) => db[opens'[Len(opens')].ctx] = 0

\* C31: a handle is memoized only by a successful open: after an openDatabase
\* call has been rejected `db` holds no handle, so the next call issues a fresh
\* open request instead of returning a handle from the failed attempt; after a
\* successful open every later call returns the same handle without issuing
\* another open request.
C31_MemoizedOnlyOnSuccess == []C31_NoFailedHandle /\ [][C31_Step]_vars

====
